---- MODULE Spec2Model ----
(***************************************************************************)
(* State-machine model of the wled-draw pixel editor core: the useWledDraw *)
(* composable (pixel grid, undo history, persistence, debounced device     *)
(* updates), the two App.vue variants that feed it, and the colour         *)
(* producers (gradient ramp, image sampler).                               *)
(*                                                                         *)
(* A colour is the sequence of the characters of its string, "#" first,   *)
(* so that upper and lower case hex digits stay distinct and so that       *)
(* parsing and formatting are computed, not assumed.  Array indices are    *)
(* the 0-based indices of the source; Get/SetAt translate them.            *)
(***************************************************************************)
EXTENDS Integers, Sequences, FiniteSets, TLC

\* ---------------------------------------------------------------- bounds
MaxWidth == 2
MaxHeight == 2
MaxOps == 2
MaxInFlight == 1
MaxOrphans == 1
MaxClears == 1

\* ------------------------------------------------------ program constants
maxHistoryLength == 50

\* ---------------------------------------------------------------- values
\* JS undefined (also an array hole), JSON null, the empty string, NaN.
Undefined == <<"undefined">>
Null == <<"null">>
EmptyStr == <<>>
NaN == 0 - 1

Black == <<"#", "0", "0", "0", "0", "0", "0">>
\* currentColor, the first palette entry
Red == <<"#", "f", "f", "2", "5", "0", "0">>
\* the default colour stops of the gradient generator
defaultStop1 == <<"#", "F", "F", "3", "3", "0", "0">>
defaultStop2 == <<"#", "F", "F", "B", "0", "0", "5">>

LowerHex == <<"0", "1", "2", "3", "4", "5", "6", "7", "8", "9",
              "a", "b", "c", "d", "e", "f">>
UpperHex == <<"0", "1", "2", "3", "4", "5", "6", "7", "8", "9",
              "A", "B", "C", "D", "E", "F">>

Falsy(v) == v \in {Undefined, Null, EmptyStr}

\* arr[i] of JS: undefined outside the array
Get(arr, i) == IF i >= 0 /\ i < Len(arr) THEN arr[i + 1] ELSE Undefined

\* arr[i] = v of JS for i >= 0: writing past the end grows the array, the
\* cells in between are holes (read as undefined)
SetAt(arr, i, v) ==
    [k \in 1..(IF i + 1 > Len(arr) THEN i + 1 ELSE Len(arr)) |->
        IF k = i + 1 THEN v ELSE IF k <= Len(arr) THEN arr[k] ELSE Undefined]

Fill(n, v) == [k \in 1..n |-> v]

\* ------------------------------------------------------- hex conversions
\* value of one hex digit, case-insensitive as parseInt(_, 16); NaN if none
HexVal(ch) ==
    IF \E k \in 1..16 : LowerHex[k] = ch
    THEN (CHOOSE k \in 1..16 : LowerHex[k] = ch) - 1
    ELSE IF \E k \in 1..16 : UpperHex[k] = ch
         THEN (CHOOSE k \in 1..16 : UpperHex[k] = ch) - 1
         ELSE NaN

\* parseInt(color.substring(from, from + 2), 16): the longest valid prefix
parseChannel(color, from) ==
    LET a == IF from + 1 <= Len(color) THEN HexVal(color[from + 1]) ELSE NaN
        b == IF from + 2 <= Len(color) THEN HexVal(color[from + 2]) ELSE NaN
    IN  IF a = NaN THEN NaN ELSE IF b = NaN THEN a ELSE 16 * a + b

\* n.toString(16).padStart(2, "0")
toHex2(n) ==
    IF n = NaN THEN <<"N", "a", "N">>
    ELSE IF n < 16 THEN <<"0", LowerHex[n + 1]>>
    ELSE IF n < 256 THEN <<LowerHex[(n \div 16) + 1], LowerHex[(n % 16) + 1]>>
    ELSE <<"1">> \o <<LowerHex[((n \div 16) % 16) + 1], LowerHex[(n % 16) + 1]>>

\* rgbToHex of the image sampler
rgbToHex(r, g, b) == <<"#">> \o toHex2(r) \o toHex2(g) \o toHex2(b)

\* ------------------------------------------------------- gradient ramp
\* A ramp position is the rational n/d (d > 0); d = 0 is NaN, the value of
\* 0/0 in the source's arithmetic.
Pos(n, d) == [n |-> n, d |-> d]
IsNaNPos(p) == p.d = 0

defaultColorStops ==
    << [color |-> defaultStop1, position |-> 9],
       [color |-> defaultStop2, position |-> 24] >>

\* [...stops].sort((a, b) => a.position - b.position): a stable sort
RECURSIVE InsertStop(_, _)
InsertStop(sorted, s) ==
    IF sorted = <<>> THEN <<s>>
    ELSE IF sorted[Len(sorted)].position <= s.position THEN Append(sorted, s)
    ELSE Append(InsertStop(SubSeq(sorted, 1, Len(sorted) - 1), s),
                sorted[Len(sorted)])

RECURSIVE SortStops(_)
SortStops(stops) ==
    IF stops = <<>> THEN <<>>
    ELSE InsertStop(SortStops(SubSeq(stops, 1, Len(stops) - 1)), stops[Len(stops)])

\* Math.round(c1 + factor * (c2 - c1)) for factor = f.n / f.d, rounding half up
roundChannel(c1, c2, f) ==
    IF c1 = NaN \/ c2 = NaN \/ IsNaNPos(f) THEN NaN
    ELSE (2 * (c1 * f.d + f.n * (c2 - c1)) + f.d) \div (2 * f.d)

interpolateColor(color1, color2, factor) ==
    <<"#">> \o toHex2(roundChannel(parseChannel(color1, 1), parseChannel(color2, 1), factor))
            \o toHex2(roundChannel(parseChannel(color1, 3), parseChannel(color2, 3), factor))
            \o toHex2(roundChannel(parseChannel(color1, 5), parseChannel(color2, 5), factor))

\* position <= p and position >= p of JS (false when position is NaN)
PosLe(pos, p) == ~IsNaNPos(pos) /\ pos.n <= p * pos.d
PosGe(pos, p) == ~IsNaNPos(pos) /\ pos.n >= p * pos.d

\* getColorAtPosition whose lower edge answers with the first stop as given
getColorAtPositionFirstGiven(stops, position) ==
    LET sorted == SortStops(stops)
        last == Len(sorted)
        hits == {i \in 1..(last - 1) :
                    PosGe(position, sorted[i].position)
                    /\ PosLe(position, sorted[i + 1].position)}
        startIndex == IF hits = {} THEN 1
                      ELSE CHOOSE i \in hits : \A j \in hits : i <= j
        start == sorted[startIndex]
        end == sorted[startIndex + 1]
        factor == IF IsNaNPos(position) THEN Pos(0, 0)
                  ELSE Pos(position.n - start.position * position.d,
                           position.d * (end.position - start.position))
    IN  IF PosLe(position, sorted[1].position) THEN stops[1].color
        ELSE IF PosGe(position, sorted[last].position) THEN sorted[last].color
        ELSE interpolateColor(start.color, end.color, factor)

getColorAtPosition(stops, position) ==
    LET sorted == SortStops(stops)
        last == Len(sorted)
        hits == {i \in 1..(last - 1) :
                    PosGe(position, sorted[i].position)
                    /\ PosLe(position, sorted[i + 1].position)}
        startIndex == IF hits = {} THEN 1
                      ELSE CHOOSE i \in hits : \A j \in hits : i <= j
        start == sorted[startIndex]
        end == sorted[startIndex + 1]
        factor == IF IsNaNPos(position) THEN Pos(0, 0)
                  ELSE Pos(position.n - start.position * position.d,
                           position.d * (end.position - start.position))
    IN  IF PosLe(position, sorted[1].position) THEN sorted[1].color
        ELSE IF PosGe(position, sorted[last].position) THEN sorted[last].color
        ELSE interpolateColor(start.color, end.color, factor)

\* Math.max(0, Math.min(100, position))
clampPosition(pos) ==
    IF IsNaNPos(pos) THEN pos
    ELSE IF pos.n < 0 THEN Pos(0, 1)
    ELSE IF pos.n > 100 * pos.d THEN Pos(100, 1)
    ELSE pos

\* The linear branch at 100% scale for the angles whose direction vector is
\* a unit axis: 0 degrees is (1, 0), 90 degrees (the default) is (0, 1).
\* normalizedX = x / (width - 1) and normalizedY = y / (height - 1) are 0/0
\* on a one-column or one-row grid, and NaN times 0 is NaN, so the position
\* is NaN as soon as either coordinate is.
linearPosition(x, y, width, height, angle) ==
    IF width = 1 \/ height = 1 THEN Pos(0, 0)
    ELSE IF angle = 0 THEN clampPosition(Pos(100 * x, width - 1))
    ELSE clampPosition(Pos(100 * y, height - 1))

defaultAngle == 90

\* calculateOptimizedPixels: row-major, one colour per cell
calculateOptimizedPixels(width, height) ==
    [k \in 1..(width * height) |->
        getColorAtPosition(defaultColorStops,
            linearPosition((k - 1) % width, (k - 1) \div width,
                           width, height, defaultAngle))]

\* ------------------------------------------------------- image sampler
\* processImage leaves in convertedPixelData one rgbToHex colour per cell of
\* the canvas; the canvas channels are integers 0..255.  Two sample images:
\* every pixel (255, 37, 0), and a dark first pixel followed by (171, 205, 239).
imagePixels(width, height, img) ==
    [k \in 1..(width * height) |->
        IF img = 0 THEN rgbToHex(255, 37, 0)
        ELSE IF k = 1 THEN rgbToHex(0, 0, 10)
        ELSE rgbToHex(171, 205, 239)]

\* ================================================================ state
VARIABLES
    gridWidth, gridHeight,  \* gridWidth.value, gridHeight.value
    pixelData,              \* pixelData.value
    history,                \* history.value
    lsPixelData,            \* localStorage.pixelData as its comma-separated
                            \* fields; <<>> while the key is not set
    lsDrawHistory,          \* localStorage.drawHistory: <<>> while not set,
                            \* else <<h>>, h the history the JSON text holds
    loading, error, ignoreApi,
    debounceTimer,          \* "null", "armed" (the handle names a timer that
                            \* is still to fire) or "fired" (it names a timer
                            \* whose callback has run)
    orphanTimers,           \* timers still to fire that the handle lost
    rafPending,             \* requestAnimationFrame callbacks still to run
    isUpdatePending, pixelDataChanged,
    postsInFlight,          \* POST requests without a response yet
    getsInFlight,           \* GET requests without a response yet
    device,                 \* the matrix the device reports: [w, h], or
                            \* NoMatrix when its info has no leds.matrix
    colorStops,             \* colorStops.value of the gradient generator
    customAngle,            \* customAngle.value of the gradient generator
    sample,                 \* history variable: the last evaluation of the
                            \* ramp or of the gradient
    historyType,            \* what history.value is: "array", or the kind
                            \* of JSON value that was parsed into it
    colorCache,             \* colorCache of the gradient generator: its
                            \* entries in insertion order
    lsColorStops,           \* localStorage.wled_gradient_color_stops
    stopsChanged,           \* the two deep watchers of colorStops are queued
    brightness, contrast,   \* brightness.value, contrast.value of the image
                            \* uploader
    imagePreview,           \* <<>> without an image, <<img>> with image img
    convertedPixelData,     \* convertedPixelData.value
    imageRuns,              \* the processImage runs waiting for img.onload
    wire,                   \* history variable: the requests on the wire
                            \* and what was seen of them, kept while
                            \* wire.log is set
    lastOp,                 \* history variable: the last core operation
    nOps,                   \* history variable: user operations so far
    run                     \* history variable of the long-history scenario

progVars == <<gridWidth, gridHeight, pixelData, history, lsPixelData,
              lsDrawHistory, loading, error, ignoreApi, debounceTimer,
              orphanTimers, rafPending, isUpdatePending, pixelDataChanged,
              postsInFlight, getsInFlight>>
genVars == <<colorStops, customAngle, sample>>
imgVars == <<brightness, contrast, imagePreview, convertedPixelData,
             imageRuns>>
pageVars == <<historyType, colorCache, lsColorStops, stopsChanged, imgVars>>
vars == <<progVars, genVars, pageVars, device, wire, lastOp, nOps, run>>

\* the program state as one record, so that a handler is a function on it
Cur ==
    [gridWidth |-> gridWidth, gridHeight |-> gridHeight,
     pixelData |-> pixelData, history |-> history,
     lsPixelData |-> lsPixelData, lsDrawHistory |-> lsDrawHistory,
     loading |-> loading, error |-> error, ignoreApi |-> ignoreApi,
     debounceTimer |-> debounceTimer, orphanTimers |-> orphanTimers,
     rafPending |-> rafPending, isUpdatePending |-> isUpdatePending,
     pixelDataChanged |-> pixelDataChanged,
     postsInFlight |-> postsInFlight, getsInFlight |-> getsInFlight,
     wire |-> wire]

InstallState(s) ==
    /\ gridWidth' = s.gridWidth
    /\ gridHeight' = s.gridHeight
    /\ pixelData' = s.pixelData
    /\ history' = s.history
    /\ lsPixelData' = s.lsPixelData
    /\ lsDrawHistory' = s.lsDrawHistory
    /\ loading' = s.loading
    /\ error' = s.error
    /\ ignoreApi' = s.ignoreApi
    /\ debounceTimer' = s.debounceTimer
    /\ orphanTimers' = s.orphanTimers
    /\ rafPending' = s.rafPending
    /\ isUpdatePending' = s.isUpdatePending
    /\ pixelDataChanged' = s.pixelDataChanged
    /\ postsInFlight' = s.postsInFlight
    /\ getsInFlight' = s.getsInFlight
    /\ wire' = s.wire

Install(s) == InstallState(s) /\ UNCHANGED <<genVars, pageVars>>

\* the gradient generator as it is mounted, nothing evaluated
NoSample == [kind |-> "", position |-> 0, color |-> <<>>, pixels |-> <<>>]
GenIdle ==
    /\ colorStops = defaultColorStops
    /\ customAngle = defaultAngle
    /\ sample = NoSample

\* the rest of the page as it is mounted on a browser whose storage holds
\* only what the page itself wrote
defaultBrightness == 100
defaultContrast == 0
\* the image uploader with no file chosen
ImgIdle ==
    /\ brightness = defaultBrightness
    /\ contrast = defaultContrast
    /\ imagePreview = <<>>
    /\ convertedPixelData = <<>>
    /\ imageRuns = <<>>
PageRest ==
    /\ historyType = "array"
    /\ colorCache = <<>>
    /\ lsColorStops = <<>>
    /\ stopsChanged = FALSE
    /\ ImgIdle
PageIdle ==
    /\ GenIdle
    /\ PageRest

\* ------------------------------------------------------------- the wire
\* body: the colours of the last POST issued; outcome: how the last request
\* that ended did end; ended flips each time a request ends; ev: the last
\* call or callback of the coalescer;
\* winState/winCalls/winPosts: the debounce window (from the arming of the
\* timer to debounceTimer = null), the calls of debouncedSendToWled in it
\* and the POSTs its callbacks issued; flushed/failed: a flush was called,
\* a POST failed; gets: the matrices the pending GETs will report, in the
\* order of issue; issued: the matrix of the GET issued last; overlap: a GET
\* was issued while another was pending, since the wire was last idle.
NoWire ==
    [log |-> FALSE, body |-> <<>>, outcome |-> "", ended |-> 0, ev |-> "",
     winState |-> "none", winCalls |-> 0, winPosts |-> 0,
     flushed |-> FALSE, failed |-> FALSE,
     gets |-> <<>>, issued |-> [w |-> 0, h |-> 0], overlap |-> FALSE]

note(s, w) == IF s.wire.log THEN [s EXCEPT !.wire = w] ELSE s

\* formattedColors: each colour (black for an empty cell) without its "#"
formattedColors(pixels) ==
    [k \in 1..Len(pixels) |->
        SelectSeq(IF Falsy(pixels[k]) THEN Black ELSE pixels[k],
                  LAMBDA ch : ch # "#")]

\* ---------------------------------------------------------- persistence
\* Array.prototype.toString: the elements joined by commas, undefined, null
\* and holes as empty fields; the empty array gives the empty string, whose
\* only field is empty.
arrayToString(arr) ==
    IF arr = <<>> THEN <<EmptyStr>>
    ELSE [k \in 1..Len(arr) |->
            IF arr[k] \in {Undefined, Null} THEN EmptyStr ELSE arr[k]]

\* JSON.parse(JSON.stringify(h)): undefined array elements come back as
\* null; a property whose value is undefined is dropped and reads undefined
jsonAction(a) ==
    [a EXCEPT !.pixels = [k \in 1..Len(a.pixels) |->
                            IF a.pixels[k] = Undefined THEN Null
                            ELSE a.pixels[k]]]
jsonRoundTrip(h) == [k \in 1..Len(h) |-> jsonAction(h[k])]

saveToLocalStorage(s) ==
    [s EXCEPT !.lsPixelData = arrayToString(s.pixelData)]

saveHistoryToStorage(s) ==
    [s EXCEPT !.lsDrawHistory = <<jsonRoundTrip(s.history)>>]

\* localStorage.drawHistory is <<>> when the key is absent, <<h>> when its
\* text is the JSON of the list h, and <<<<>>, kind>> for any other text:
\* kind is Unparseable, or names the JSON value the text parses to.
Unparseable == "unparseable"
NotLists == {"null", "number", "object"}

loadHistoryFromStorage(s) ==
    IF s.lsDrawHistory = <<>> THEN s
    ELSE IF Len(s.lsDrawHistory) = 2 /\ s.lsDrawHistory[2] = Unparseable
    THEN [s EXCEPT !.history = <<>>]
    ELSE [s EXCEPT !.history = s.lsDrawHistory[1]]

\* what history.value is after loadHistoryFromStorage: JSON.parse's result
\* is assigned as it is
typeLoaded(s, type) ==
    IF s.lsDrawHistory = <<>> THEN type
    ELSE IF Len(s.lsDrawHistory) = 2 /\ s.lsDrawHistory[2] # Unparseable
    THEN s.lsDrawHistory[2]
    ELSE "array"

\* --------------------------------------------------------------- history
DrawAction(index, color) ==
    [type |-> "draw", index |-> index, color |-> color, pixels |-> <<>>]
ClearAction(pixels) ==
    [type |-> "clear", index |-> 0, color |-> Undefined, pixels |-> pixels]

\* variant: nothing is evicted
pushUncapped(h, action) == Append(h, action)

\* variant: the oldest entry goes as soon as the cap is reached
pushCappedEarly(h, action) ==
    LET pushed == Append(h, action)
    IN  IF Len(pushed) >= maxHistoryLength THEN Tail(pushed) ELSE pushed

pushCapped(h, action) ==
    LET pushed == Append(h, action)
    IN  IF Len(pushed) > maxHistoryLength THEN Tail(pushed) ELSE pushed

saveToHistory(s, action) ==
    saveHistoryToStorage([s EXCEPT !.history = pushCapped(s.history, action)])

\* ------------------------------------------------------------- coalescer
\* variant: the request leaves whether or not the device is ignored
sendToWledImmediateUnguarded(s) ==
    note([s EXCEPT !.postsInFlight = s.postsInFlight + 1],
         [s.wire EXCEPT !.body = formattedColors(s.pixelData)])

sendToWledImmediate(s) ==
    IF s.ignoreApi THEN s
    ELSE note([s EXCEPT !.postsInFlight = s.postsInFlight + 1],
              [s.wire EXCEPT !.body = formattedColors(s.pixelData)])

debouncedSendToWled(s) ==
    IF s.ignoreApi THEN s
    ELSE IF s.debounceTimer # "null"
    THEN note([s EXCEPT !.pixelDataChanged = TRUE],
              [s.wire EXCEPT !.ev = "schedule", !.winCalls = @ + 1])
    ELSE note([s EXCEPT !.pixelDataChanged = TRUE, !.debounceTimer = "armed"],
              [s.wire EXCEPT !.ev = "schedule", !.winState = "open",
                             !.winCalls = 1, !.winPosts = 0])

\* debounceTimer = null, by a callback that may not own the handle: a timer
\* the handle named and that is still to fire goes on unreferenced
dropHandle(s) ==
    note([s EXCEPT !.debounceTimer = "null",
                   !.orphanTimers = IF s.debounceTimer = "armed"
                                    THEN s.orphanTimers + 1 ELSE s.orphanTimers],
         [s.wire EXCEPT !.winState = IF @ = "open" THEN "closed" ELSE @])

\* the setTimeout callback of debouncedSendToWled
timerCallback(s) ==
    LET t == note(s, [s.wire EXCEPT !.ev = "timer"])
    IN  IF t.pixelDataChanged
        THEN [t EXCEPT !.isUpdatePending = TRUE, !.rafPending = t.rafPending + 1]
        ELSE dropHandle(t)

\* the requestAnimationFrame callback of debouncedSendToWled
animationFrameCallback(s) ==
    LET t == sendToWledImmediate(s)
        u == note(t, [t.wire EXCEPT !.ev = "frame",
                         !.winPosts = @ + (t.postsInFlight - s.postsInFlight)])
    IN  dropHandle([u EXCEPT !.isUpdatePending = FALSE,
                             !.rafPending = s.rafPending - 1])

flushChanges(s) ==
    LET cleared == note([s EXCEPT !.debounceTimer = "null"],
                        [s.wire EXCEPT !.ev = "flush", !.flushed = TRUE])
    IN  IF cleared.pixelDataChanged THEN sendToWledImmediate(cleared)
        ELSE cleared

\* ------------------------------------------------------------ grid edits
\* variant: the oldest action is taken off and reverted, not the newest
undoOldestFirst(s) ==
    IF s.history = <<>> THEN s
    ELSE LET lastAction == s.history[1]
             popped == Tail(s.history)
             restored ==
                 IF lastAction.type = "draw"
                 THEN SetAt(s.pixelData, lastAction.index, lastAction.color)
                 ELSE IF lastAction.type = "clear" THEN lastAction.pixels
                 ELSE s.pixelData
             s1 == saveHistoryToStorage(
                     [s EXCEPT !.history = popped, !.pixelData = restored])
             s2 == saveToLocalStorage(s1)
         IN  debouncedSendToWled([s2 EXCEPT !.pixelDataChanged = TRUE])

\* variant: the send is requested before the history is looked at
undoAlwaysSends(s) ==
    IF s.history = <<>>
    THEN debouncedSendToWled([s EXCEPT !.pixelDataChanged = TRUE])
    ELSE LET lastAction == s.history[Len(s.history)]
             popped == SubSeq(s.history, 1, Len(s.history) - 1)
             restored ==
                 IF lastAction.type = "draw"
                 THEN SetAt(s.pixelData, lastAction.index, lastAction.color)
                 ELSE IF lastAction.type = "clear" THEN lastAction.pixels
                 ELSE s.pixelData
             s1 == saveHistoryToStorage(
                     [s EXCEPT !.history = popped, !.pixelData = restored])
             s2 == saveToLocalStorage(s1)
         IN  debouncedSendToWled([s2 EXCEPT !.pixelDataChanged = TRUE])

undo(s) ==
    IF s.history = <<>> THEN s
    ELSE LET lastAction == s.history[Len(s.history)]
             popped == SubSeq(s.history, 1, Len(s.history) - 1)
             restored ==
                 IF lastAction.type = "draw"
                 THEN SetAt(s.pixelData, lastAction.index, lastAction.color)
                 ELSE IF lastAction.type = "clear" THEN lastAction.pixels
                 ELSE s.pixelData
             s1 == saveHistoryToStorage(
                     [s EXCEPT !.history = popped, !.pixelData = restored])
             s2 == saveToLocalStorage(s1)
         IN  debouncedSendToWled([s2 EXCEPT !.pixelDataChanged = TRUE])

\* variant: the snapshot is taken after the grid is blanked
clearScreenSnapshotsLate(s) ==
    LET blank == Fill(s.gridWidth * s.gridHeight, Black)
        s1 == saveToHistory(s, ClearAction(blank))
        s2 == [s1 EXCEPT !.pixelData = blank]
        s3 == saveToLocalStorage(s2)
    IN  debouncedSendToWled([s3 EXCEPT !.pixelDataChanged = TRUE])

clearScreen(s) ==
    LET s1 == saveToHistory(s, ClearAction(s.pixelData))
        s2 == [s1 EXCEPT !.pixelData = Fill(s.gridWidth * s.gridHeight, Black)]
        s3 == saveToLocalStorage(s2)
    IN  debouncedSendToWled([s3 EXCEPT !.pixelDataChanged = TRUE])

\* the loop of setupGrid: localData[i] || "#000000" for each cell; an unset
\* or empty localStorage.pixelData is not split
gridFromStorage(gridSize, ls) ==
    LET localData == IF ls = <<>> \/ ls = <<EmptyStr>> THEN <<>> ELSE ls
    IN  [k \in 1..gridSize |->
            IF Falsy(Get(localData, k - 1)) THEN Black ELSE localData[k]]

setupGrid(s) ==
    loadHistoryFromStorage(
        [s EXCEPT !.pixelData = gridFromStorage(s.gridWidth * s.gridHeight,
                                                s.lsPixelData)])

\* variant: the action holds the colour written, not the one replaced
updatePixelRecordsNew(s, index, newColor) ==
    IF Get(s.pixelData, index) = newColor THEN s
    ELSE LET s1 == saveToHistory(s, DrawAction(index, newColor))
             s2 == [s1 EXCEPT !.pixelData = SetAt(s1.pixelData, index, newColor),
                              !.pixelDataChanged = TRUE]
         IN  saveToLocalStorage(s2)

updatePixel(s, index, newColor) ==
    IF Get(s.pixelData, index) = newColor THEN s
    ELSE LET s1 == saveToHistory(s, DrawAction(index, Get(s.pixelData, index)))
             s2 == [s1 EXCEPT !.pixelData = SetAt(s1.pixelData, index, newColor),
                              !.pixelDataChanged = TRUE]
         IN  saveToLocalStorage(s2)

\* the forEach body of batchUpdatePixels, over the indices in order
RECURSIVE batchEach(_, _, _)
batchEach(s, indices, newColor) ==
    IF indices = <<>> THEN s
    ELSE LET index == Head(indices)
             s1 == IF index >= 0 /\ index < Len(s.pixelData)
                      /\ s.pixelData[index + 1] # newColor
                   THEN LET s0 == saveToHistory(s, DrawAction(index, s.pixelData[index + 1]))
                        IN  [s0 EXCEPT !.pixelData = SetAt(s0.pixelData, index, newColor)]
                   ELSE s
         IN  batchEach(s1, Tail(indices), newColor)

batchUpdatePixels(s, indices, newColor) ==
    LET s1 == batchEach(s, indices, newColor)
        s2 == saveToLocalStorage([s1 EXCEPT !.pixelDataChanged = TRUE])
    IN  debouncedSendToWled(s2)

applyPixelArray(s, newPixels) ==
    IF Len(newPixels) = 0 \/ Len(newPixels) # Len(s.pixelData) THEN s
    ELSE LET s1 == saveToHistory(s, ClearAction(s.pixelData))
             s2 == [s1 EXCEPT !.pixelData = newPixels, !.pixelDataChanged = TRUE]
         IN  debouncedSendToWled(saveToLocalStorage(s2))

\* applyGradient / applyImageToCanvas of the App variant that draws the
\* array cell by cell: updatePixel for every index below pixelData.length,
\* then sendToWled (the debounced send)
RECURSIVE applyEach(_, _, _)
applyEach(s, data, index) ==
    IF index >= Len(data) THEN s
    ELSE applyEach(IF index < Len(s.pixelData)
                   THEN updatePixel(s, index, data[index + 1]) ELSE s,
                   data, index + 1)

applyGradient(s, gradientData) == debouncedSendToWled(applyEach(s, gradientData, 0))

\* ------------------------------------------------------- drawing canvas
\* getBrushIndices for a brush wider than one cell: the centre, then the
\* cells of the 3x3 block around it that lie on the grid, row by row
RECURSIVE brushFrom(_, _, _, _)
brushFrom(k, centerIndex, width, height) ==
    IF k > 8 THEN <<>>
    ELSE LET newX == (centerIndex % width) + (k % 3) - 1
             newY == (centerIndex \div width) + (k \div 3) - 1
             rest == brushFrom(k + 1, centerIndex, width, height)
         IN  IF k # 4 /\ newX >= 0 /\ newX < width /\ newY >= 0 /\ newY < height
             THEN <<newX + newY * width>> \o rest
             ELSE rest

getBrushIndices(centerIndex, width, height) ==
    <<centerIndex>> \o brushFrom(0, centerIndex, width, height)

\* setColor keeps the indices whose cell differs from the active colour
indicesToChange(s, centerIndex, color) ==
    SelectSeq(getBrushIndices(centerIndex, s.gridWidth, s.gridHeight),
              LAMBDA idx : Get(s.pixelData, idx) # color)

\* ------------------------------------------------------ device requests
\* fetchWledInfo up to the fetch: the request leaves; matrix is what the
\* device at the current apiUrl will report
fetchWledInfo(s, matrix) ==
    note([s EXCEPT !.loading = TRUE, !.getsInFlight = s.getsInFlight + 1],
         [s.wire EXCEPT !.gets = Append(@, matrix), !.issued = matrix,
                        !.overlap = (s.wire.gets # <<>>)])

\* the .then chain of fetchWledInfo on a response carrying matrix
\* dimensions; the dimension watcher runs setupGrid once more
fetchWledInfoSuccess(s, w, h) ==
    LET s0 == note(s, [s.wire EXCEPT !.outcome = "ok", !.ended = 1 - @])
        s1 == [s0 EXCEPT !.gridWidth = w, !.gridHeight = h,
                         !.loading = FALSE, !.error = FALSE,
                         !.getsInFlight = s.getsInFlight - 1]
        s2 == setupGrid(s1)
    IN  IF w # s.gridWidth \/ h # s.gridHeight THEN setupGrid(s2) ELSE s2

\* the same on a response without info.leds.matrix
fetchWledInfoNoMatrix(s) ==
    setupGrid(note([s EXCEPT !.loading = FALSE, !.error = FALSE,
                             !.getsInFlight = s.getsInFlight - 1],
                   [s.wire EXCEPT !.outcome = "ok", !.ended = 1 - @]))

\* the .catch of fetchWledInfo: its parameter is named error, so
\* error.value = true lands on the caught object, not on the error ref
fetchWledInfoFailure(s) ==
    note([s EXCEPT !.loading = FALSE, !.getsInFlight = s.getsInFlight - 1],
         [s.wire EXCEPT !.outcome = "getFailed", !.ended = 1 - @])

\* the .then / .catch of sendToWledImmediate (same parameter name)
postSuccess(s) ==
    note([s EXCEPT !.pixelDataChanged = FALSE,
                   !.postsInFlight = s.postsInFlight - 1],
         [s.wire EXCEPT !.outcome = "ok", !.ended = 1 - @])

\* variant: the request is sent again on failure
postFailureRetries(s) ==
    note(s, [s.wire EXCEPT !.outcome = "postFailed", !.ended = 1 - @,
                            !.failed = TRUE])

postFailure(s) ==
    note([s EXCEPT !.postsInFlight = s.postsInFlight - 1],
         [s.wire EXCEPT !.outcome = "postFailed", !.ended = 1 - @,
                        !.failed = TRUE])

ignoreApiAndContinue(s) ==
    setupGrid(note([s EXCEPT !.ignoreApi = TRUE, !.loading = FALSE,
                             !.error = FALSE],
                   [s.wire EXCEPT !.outcome = "", !.ev = "ignore"]))

\* watch([gridWidth, gridHeight]) after a write to one of the two refs
setDimensions(s, w, h) ==
    setupGrid([s EXCEPT !.gridWidth = w, !.gridHeight = h])

\* ======================================================== history variables
NoSnap == [pixelData |-> <<>>, history |-> <<>>, gridWidth |-> 0, gridHeight |-> 0]
Snap(s) == [pixelData |-> s.pixelData, history |-> s.history,
            gridWidth |-> s.gridWidth, gridHeight |-> s.gridHeight]

\* op: the operation; at: its number among the user operations; effective:
\* it recorded what its claim assumes; pre: the state before it.  After an
\* undo, undid/index/effective/pre are those of the operation just before.
Op(op, undid, index, effective, pre) ==
    [op |-> op, undid |-> undid, index |-> index, effective |-> effective,
     pre |-> pre, at |-> nOps + 1]

NoOp == [op |-> "init", undid |-> "", index |-> 0, effective |-> FALSE,
         pre |-> NoSnap, at |-> 0]

NoMatrix == [w |-> 0, h |-> 0]

\* recs: actions recorded in a row since the history was empty; undos: the
\* undo calls in a row after exactly maxHistoryLength + 1 of them; grids:
\* the grid before each of the recorded actions; tick flips at each record
NoRun == [recs |-> 0, undos |-> 0, grids |-> <<>>]
RunRecord ==
    [tick |-> 1 - run.tick] @@
    (IF history = <<>>
     THEN [recs |-> 1, undos |-> 0, grids |-> <<pixelData>>]
     ELSE IF run.recs > 0 /\ run.recs <= maxHistoryLength /\ run.undos = 0
     THEN [recs |-> run.recs + 1, undos |-> 0,
           grids |-> Append(run.grids, pixelData)]
     ELSE NoRun)
RunUndo ==
    [tick |-> run.tick] @@
    (IF run.recs = maxHistoryLength + 1 /\ run.undos <= maxHistoryLength
     THEN [recs |-> run.recs, undos |-> run.undos + 1, grids |-> run.grids]
     ELSE NoRun)

Bounded(s) ==
    /\ s.postsInFlight <= MaxInFlight
    /\ s.orphanTimers <= MaxOrphans
    /\ s.rafPending <= MaxOrphans

Do(s) == Bounded(s) /\ Install(s)
Tick == nOps < MaxOps /\ nOps' = nOps + 1

DrawColors == {Red, Black}
\* a drawing an earlier visit left in localStorage: the first cell painted
savedDrawing(gridSize) == [k \in 1..gridSize |-> IF k = 1 THEN Red ELSE Black]
Cells == 0..(gridWidth * gridHeight - 1)

\* ================================================================ actions
\* The page of a returning user just after mount: the dimensions come from
\* the saved settings, the grid from the saved drawing if there is one
\* (setupGrid, run by the watcher of the dimensions), no history is saved,
\* and the two requests for the device info (initialize, and the watcher of
\* apiUrl) are on their way.
Init ==
    /\ gridWidth \in 1..MaxWidth
    /\ gridHeight \in 1..MaxHeight
    /\ lsPixelData \in {<<>>, arrayToString(savedDrawing(gridWidth * gridHeight))}
    /\ pixelData = gridFromStorage(gridWidth * gridHeight, lsPixelData)
    /\ history = <<>>
    /\ lsDrawHistory = <<>>
    /\ loading = TRUE
    /\ error = FALSE
    /\ ignoreApi = FALSE
    /\ debounceTimer = "null"
    /\ orphanTimers = 0
    /\ rafPending = 0
    /\ isUpdatePending = FALSE
    /\ pixelDataChanged = FALSE
    /\ postsInFlight = 0
    /\ getsInFlight = 1 + 1
    /\ device \in {NoMatrix, [w |-> MaxWidth, h |-> MaxHeight]}
    /\ wire = NoWire
    /\ nOps = 0
    /\ lastOp = NoOp
    /\ run = [tick |-> 0] @@ NoRun
    /\ PageIdle

\* DrawingCanvas emits update-pixel (one-cell brush) for a cell whose colour
\* differs from the active one; the canvas is rendered once loading is over
handleUpdatePixel ==
    \E index \in Cells, color \in DrawColors :
        /\ ~loading
        /\ Get(pixelData, index) # color
        /\ Tick
        /\ Do(updatePixel(Cur, index, color))
        /\ lastOp' = Op("updatePixel", "", index, TRUE, Snap(Cur))
        /\ UNCHANGED <<device, run>>

\* DrawingCanvas emits batch-update-pixels (wider brush)
handleBatchUpdatePixels ==
    \E center \in Cells, color \in DrawColors :
        /\ ~loading
        /\ indicesToChange(Cur, center, color) # <<>>
        /\ Tick
        /\ Do(batchUpdatePixels(Cur, indicesToChange(Cur, center, color), color))
        /\ lastOp' = Op("batchUpdatePixels", "", center, TRUE, NoSnap)
        /\ UNCHANGED <<device, run>>

\* DrawingCanvas emits draw-complete: flushChanges in one App variant,
\* sendToWled (the debounced send) in the other.  A flush repeats without
\* end only up to the requests it may issue, so it takes no budget.
handleDrawComplete ==
    /\ ~loading
    /\ \/ Do(flushChanges(Cur)) /\ UNCHANGED nOps
       \/ Do(debouncedSendToWled(Cur)) /\ Tick
    /\ UNCHANGED <<device, lastOp, run>>

emitUndo ==
    /\ Tick
    /\ Do(undo(Cur))
    /\ lastOp' = Op("undo", lastOp.op, lastOp.index,
                    lastOp.effective /\ history # <<>>, lastOp.pre)
    /\ UNCHANGED <<device, run>>

emitClear ==
    /\ Tick
    /\ Do(clearScreen(Cur))
    /\ lastOp' = Op("clearScreen", "", 0, TRUE, Snap(Cur))
    /\ UNCHANGED <<device, run>>

\* GradientGenerator.applyGradient through the applyPixelArray prop
handleGradientUpdate ==
    /\ Tick
    /\ Do(applyPixelArray(Cur, calculateOptimizedPixels(gridWidth, gridHeight)))
    /\ lastOp' = Op("applyPixelArray", "", 0,
                    Len(pixelData) = gridWidth * gridHeight, Snap(Cur))
    /\ UNCHANGED <<device, run>>

\* ImageUploader emits apply-image when the converted data has one colour
\* per cell of the grid
applyImageToCanvas ==
    \E img \in {0, 1} :
        /\ Tick
        /\ Do(applyPixelArray(Cur, imagePixels(gridWidth, gridHeight, img)))
        /\ lastOp' = Op("applyPixelArray", "", 0,
                        Len(pixelData) = gridWidth * gridHeight, Snap(Cur))
        /\ UNCHANGED <<device, run>>

\* the App variant whose applyGradient draws cell by cell
applyGradientEach ==
    LET after == applyGradient(Cur, calculateOptimizedPixels(gridWidth, gridHeight))
    IN  /\ Tick
        /\ Do(after)
        /\ lastOp' = Op("applyGradient", "", 0,
                        after.pixelData # pixelData, Snap(Cur))
        /\ UNCHANGED <<device, run>>

\* Settings writes one of the dimension refs
changeDimensions ==
    \E w \in 1..MaxWidth, h \in 1..MaxHeight :
        /\ (w = gridWidth) # (h = gridHeight)
        /\ Tick
        /\ Do(setDimensions(Cur, w, h))
        /\ lastOp' = Op("setupGrid", "", 0, TRUE, NoSnap)
        /\ UNCHANGED <<device, run>>

continueWithoutDevice ==
    /\ ~ignoreApi
    /\ Tick
    /\ Do(ignoreApiAndContinue(Cur))
    /\ lastOp' = Op("setupGrid", "", 0, FALSE, NoSnap)
    /\ UNCHANGED <<device, run>>

timerFires ==
    /\ debounceTimer = "armed"
    /\ Do(timerCallback([Cur EXCEPT !.debounceTimer = "fired"]))
    /\ UNCHANGED <<device, lastOp, nOps, run>>

orphanTimerFires ==
    /\ orphanTimers > 0
    /\ Do(timerCallback([Cur EXCEPT !.orphanTimers = orphanTimers - 1]))
    /\ UNCHANGED <<device, lastOp, nOps, run>>

animationFrame ==
    /\ rafPending > 0
    /\ Do(animationFrameCallback(Cur))
    /\ UNCHANGED <<device, lastOp, nOps, run>>

postResponse ==
    /\ postsInFlight > 0
    /\ \/ Do(postSuccess(Cur))
       \/ Do(postFailure(Cur))
    /\ UNCHANGED <<device, lastOp, nOps, run>>

getResponse ==
    /\ getsInFlight > 0
    /\ IF device = NoMatrix THEN Do(fetchWledInfoNoMatrix(Cur))
       ELSE Do(fetchWledInfoSuccess(Cur, device.w, device.h))
    /\ lastOp' = [Op("setupGrid", "", 0, FALSE, NoSnap) EXCEPT !.at = 0]
    /\ UNCHANGED <<device, nOps, run>>

getFails ==
    /\ getsInFlight > 0
    /\ Do(fetchWledInfoFailure(Cur))
    /\ UNCHANGED <<device, lastOp, nOps, run>>

Next ==
    \/ handleUpdatePixel
    \/ handleBatchUpdatePixels
    \/ handleDrawComplete
    \/ emitUndo
    \/ emitClear
    \/ handleGradientUpdate
    \/ applyImageToCanvas
    \/ applyGradientEach
    \/ changeDimensions
    \/ continueWithoutDevice
    \/ timerFires
    \/ orphanTimerFires
    \/ animationFrame
    \/ postResponse
    \/ getResponse
    \/ getFails

Spec == Init /\ [][Next]_vars

\* ================================================== the long-history runs
\* One cell, the device unreachable (both requests for its info failed), and
\* only the operations that record or revert: the history fills to its cap
\* and beyond.  The callbacks of the coalescer neither read nor write the
\* history or the grid, so they are left out of these runs.
ClearsIn(h) == Cardinality({k \in 1..Len(h) : h[k].type = "clear"})

InitCap ==
    /\ gridWidth = 1
    /\ gridHeight = 1
    /\ pixelData = Fill(1, Black)
    /\ history = <<>>
    /\ lsPixelData = <<>>
    /\ lsDrawHistory = <<>>
    /\ loading = FALSE
    /\ error = FALSE
    /\ ignoreApi = FALSE
    /\ debounceTimer = "null"
    /\ orphanTimers = 0
    /\ rafPending = 0
    /\ isUpdatePending = FALSE
    /\ pixelDataChanged = FALSE
    /\ postsInFlight = 0
    /\ getsInFlight = 0
    /\ device = NoMatrix
    /\ wire = NoWire
    /\ nOps = 0
    /\ lastOp = NoOp
    /\ run = [tick |-> 0] @@ NoRun
    /\ PageIdle

recordDraw ==
    \E index \in Cells, color \in DrawColors :
        /\ Get(pixelData, index) # color
        /\ Install(updatePixel(Cur, index, color))
        /\ run' = RunRecord
        /\ UNCHANGED <<device, lastOp, nOps>>

recordClear ==
    /\ ClearsIn(history) < MaxClears
    /\ Install(clearScreen(Cur))
    /\ run' = RunRecord
    /\ UNCHANGED <<device, lastOp, nOps>>

revert ==
    /\ Install(undo(Cur))
    /\ run' = RunUndo
    /\ UNCHANGED <<device, lastOp, nOps>>

NextCap ==
    \/ recordDraw
    \/ recordClear
    \/ revert

SpecCap == InitCap /\ [][NextCap]_vars

\* ================================================ direct calls of the API
\* updatePixel and batchUpdatePixels are returned by the composable; a
\* caller may pass any index, here one below and one beyond the grid too.
callUpdatePixel ==
    \E index \in 0..(gridWidth * gridHeight), color \in DrawColors :
        /\ Tick
        /\ Do(updatePixel(Cur, index, color))
        /\ lastOp' = Op("updatePixel", "", index, TRUE, Snap(Cur))
        /\ UNCHANGED <<device, run>>

callBatchUpdatePixels ==
    \E index \in (0 - 1)..(gridWidth * gridHeight), color \in DrawColors :
        /\ Tick
        /\ Do(batchUpdatePixels(Cur, <<index>>, color))
        /\ lastOp' = Op("batchUpdatePixels", "", index, TRUE, Snap(Cur))
        /\ UNCHANGED <<device, run>>

NextApi ==
    \/ callUpdatePixel
    \/ callBatchUpdatePixels
    \/ emitUndo
    \/ timerFires
    \/ animationFrame
    \/ postResponse
    \/ getResponse
    \/ getFails

SpecApi == Init /\ [][NextApi]_vars

\* ================================================ the serpentine encoder
White == <<"#", "f", "f", "f", "f", "f", "f">>
SerpColors == {Red, White, Black}

\* Array.prototype.slice(start, end), clipped to the array (0-based bounds)
slice(arr, start, end) ==
    LET lo == IF start < Len(arr) THEN start ELSE Len(arr)
        hi == IF end < Len(arr) THEN end ELSE Len(arr)
    IN  [k \in 1..(IF hi > lo THEN hi - lo ELSE 0) |-> arr[lo + k]]

reverse(arr) == [k \in 1..Len(arr) |-> arr[Len(arr) + 1 - k]]

\* the row loop with the wrong parity: even rows reversed, odd rows kept
RECURSIVE serpentineRowsEvenReversed(_, _, _, _)
serpentineRowsEvenReversed(pixels, width, height, y) ==
    IF y >= height THEN <<>>
    ELSE LET rowColors == slice(pixels, y * width, y * width + width)
         IN  (IF y % 2 = 0 THEN reverse(rowColors) ELSE rowColors)
             \o serpentineRowsEvenReversed(pixels, width, height, y + 1)

\* the row loop of formattedColors, from row y on
RECURSIVE serpentineRows(_, _, _, _)
serpentineRows(pixels, width, height, y) ==
    IF y >= height THEN <<>>
    ELSE LET rowColors == slice(pixels, y * width, y * width + width)
             isReversedRow == y % 2 # 0
         IN  (IF isReversedRow THEN reverse(rowColors) ELSE rowColors)
             \o serpentineRows(pixels, width, height, y + 1)

\* formattedColors of the wired panel: the rows in serpentine order, each
\* colour quoted with its "#" removed (the joined string is kept as the
\* sequence of its entries)
serpentineColors(pixels, width, height) ==
    LET serpentine == serpentineRows(pixels, width, height, 0)
    IN  [k \in 1..Len(serpentine) |->
            SelectSeq(serpentine[k], LAMBDA ch : ch # "#")]

\* Any drawing on any grid within the bounds; nothing is pending.
InitSerp ==
    /\ gridWidth \in 1..MaxWidth
    /\ gridHeight \in 1..MaxHeight
    /\ pixelData \in [1..(gridWidth * gridHeight) -> SerpColors]
    /\ history = <<>>
    /\ lsPixelData = <<>>
    /\ lsDrawHistory = <<>>
    /\ loading = FALSE
    /\ error = FALSE
    /\ ignoreApi = FALSE
    /\ debounceTimer = "null"
    /\ orphanTimers = 0
    /\ rafPending = 0
    /\ isUpdatePending = FALSE
    /\ pixelDataChanged = FALSE
    /\ postsInFlight = 0
    /\ getsInFlight = 0
    /\ device = NoMatrix
    /\ wire = NoWire
    /\ nOps = 0
    /\ lastOp = NoOp
    /\ run = [tick |-> 0] @@ NoRun
    /\ PageIdle

\* the body of a request is computed from the grid
encode ==
    /\ wire.ev = ""
    /\ wire' = [wire EXCEPT !.ev = "encode",
                  !.body = serpentineColors(pixelData, gridWidth, gridHeight)]
    /\ UNCHANGED <<progVars, genVars, pageVars, device, lastOp, nOps, run>>

\* the encoder is applied to what it has emitted, with the same dimensions
encodeAgain ==
    /\ wire.ev = "encode"
    /\ wire' = [wire EXCEPT !.ev = "encodeAgain",
                  !.body = serpentineColors(wire.body, gridWidth, gridHeight)]
    /\ UNCHANGED <<progVars, genVars, pageVars, device, lastOp, nOps, run>>

NextSerp ==
    \/ encode
    \/ encodeAgain

SpecSerp == InitSerp /\ [][NextSerp]_vars

\* ================================================ device info requests
MaxGets == 2
\* the matrices of the devices the API URL can point to
Matrices == {[w |-> 1, h |-> 1], [w |-> MaxWidth, h |-> MaxHeight]}

\* The page once loaded, no request pending, the wire watched.
InitGet ==
    /\ gridWidth \in 1..MaxWidth
    /\ gridHeight \in 1..MaxHeight
    /\ lsPixelData \in {<<>>, arrayToString(savedDrawing(gridWidth * gridHeight))}
    /\ pixelData = gridFromStorage(gridWidth * gridHeight, lsPixelData)
    /\ history = <<>>
    /\ lsDrawHistory = <<>>
    /\ loading = FALSE
    /\ error = FALSE
    /\ ignoreApi = FALSE
    /\ debounceTimer = "null"
    /\ orphanTimers = 0
    /\ rafPending = 0
    /\ isUpdatePending = FALSE
    /\ pixelDataChanged = FALSE
    /\ postsInFlight = 0
    /\ getsInFlight = 0
    /\ device = NoMatrix
    /\ wire = [NoWire EXCEPT !.log = TRUE]
    /\ nOps = 0
    /\ lastOp = NoOp
    /\ run = [tick |-> 0] @@ NoRun
    /\ PageIdle

\* the API URL is changed in the settings (or set by initialize): the
\* watcher on apiUrl calls fetchWledInfo
changeApiUrl ==
    \E matrix \in Matrices :
        /\ getsInFlight < MaxGets
        /\ Do(fetchWledInfo(Cur, matrix))
        /\ UNCHANGED <<device, lastOp, nOps, run>>

\* the response to one of the pending GETs arrives, in any order
getAnswered ==
    \E k \in 1..Len(wire.gets) :
        LET matrix == wire.gets[k]
            rest == [j \in 1..(Len(wire.gets) - 1) |->
                        IF j < k THEN wire.gets[j] ELSE wire.gets[j + 1]]
        IN  /\ Do(fetchWledInfoSuccess([Cur EXCEPT !.wire.gets = rest],
                                       matrix.w, matrix.h))
            /\ UNCHANGED <<device, lastOp, nOps, run>>

NextGet ==
    \/ changeApiUrl
    \/ getAnswered

SpecGet == InitGet /\ [][NextGet]_vars

\* ==================================================== the colour ramp
MinStops == 2
MaxStops == 4
PureRed == <<"#", "f", "f", "0", "0", "0", "0">>
PureBlue == <<"#", "0", "0", "0", "0", "f", "f">>
RampColors == {PureRed, PureBlue, defaultStop1}
RampPositions == {0, 50, 100}
RampAngles == {0, defaultAngle}
\* every list of MinStops to MaxStops stops, in any order
StopLists ==
    UNION {[1..n -> [color : RampColors, position : RampPositions]] :
              n \in MinStops..MaxStops}

\* calculateOptimizedPixels in the linear mode at 100% scale, for the stops
\* and the angle of the component
gradientPixels(stops, angle, width, height) ==
    [k \in 1..(width * height) |->
        getColorAtPosition(stops,
            linearPosition((k - 1) % width, (k - 1) \div width,
                           width, height, angle))]

\* Any stop list and either axis angle, on the largest grid of the bounds.
InitRamp ==
    /\ gridWidth = MaxWidth
    /\ gridHeight = MaxHeight
    /\ pixelData = Fill(gridWidth * gridHeight, Black)
    /\ history = <<>>
    /\ lsPixelData = <<>>
    /\ lsDrawHistory = <<>>
    /\ loading = FALSE
    /\ error = FALSE
    /\ ignoreApi = FALSE
    /\ debounceTimer = "null"
    /\ orphanTimers = 0
    /\ rafPending = 0
    /\ isUpdatePending = FALSE
    /\ pixelDataChanged = FALSE
    /\ postsInFlight = 0
    /\ getsInFlight = 0
    /\ device = NoMatrix
    /\ wire = NoWire
    /\ nOps = 0
    /\ lastOp = NoOp
    /\ run = [tick |-> 0] @@ NoRun
    /\ colorStops \in StopLists
    /\ customAngle \in RampAngles
    /\ sample = NoSample
    /\ PageRest

\* the ramp is evaluated at one position
evaluateRamp ==
    \E position \in RampPositions :
        /\ sample' = [kind |-> "color", position |-> position,
                      color |-> getColorAtPosition(colorStops, Pos(position, 1)),
                      pixels |-> <<>>]
        /\ UNCHANGED <<progVars, colorStops, customAngle, pageVars, device, wire,
                       lastOp, nOps, run>>

\* gradientPixels is computed for the grid
computeGradient ==
    /\ sample' = [kind |-> "pixels", position |-> 0, color |-> <<>>,
                  pixels |-> gradientPixels(colorStops, customAngle,
                                            gridWidth, gridHeight)]
    /\ UNCHANGED <<progVars, colorStops, customAngle, pageVars, device, wire,
                   lastOp, nOps, run>>

NextRamp ==
    \/ evaluateRamp
    \/ computeGradient

SpecRamp == InitRamp /\ [][NextRamp]_vars

\* ============================================== gradients on any grid
\* Any grid of the bounds, one cell wide or high included, any two stops
\* and either axis angle.
InitSizes ==
    /\ gridWidth \in 1..MaxWidth
    /\ gridHeight \in 1..MaxHeight
    /\ pixelData = Fill(gridWidth * gridHeight, Black)
    /\ history = <<>>
    /\ lsPixelData = <<>>
    /\ lsDrawHistory = <<>>
    /\ loading = FALSE
    /\ error = FALSE
    /\ ignoreApi = FALSE
    /\ debounceTimer = "null"
    /\ orphanTimers = 0
    /\ rafPending = 0
    /\ isUpdatePending = FALSE
    /\ pixelDataChanged = FALSE
    /\ postsInFlight = 0
    /\ getsInFlight = 0
    /\ device = NoMatrix
    /\ wire = NoWire
    /\ nOps = 0
    /\ lastOp = NoOp
    /\ run = [tick |-> 0] @@ NoRun
    /\ colorStops \in [1..MinStops -> [color : RampColors, position : RampPositions]]
    /\ customAngle \in RampAngles
    /\ sample = NoSample
    /\ PageRest

NextSizes == computeGradient

SpecSizes == InitSizes /\ [][NextSizes]_vars

\* ======================================================= the coalescer
\* The page once loaded, the device in step with the grid (the last POST
\* carried the grid as it is), the wire watched.  The edits are those that
\* end in debouncedSendToWled; no request for the device info is pending.
InitNet ==
    /\ gridWidth \in 1..MaxWidth
    /\ gridHeight \in 1..MaxHeight
    /\ pixelData = Fill(gridWidth * gridHeight, Black)
    /\ history = <<>>
    /\ lsPixelData = <<>>
    /\ lsDrawHistory = <<>>
    /\ loading = FALSE
    /\ error = FALSE
    /\ ignoreApi = FALSE
    /\ debounceTimer = "null"
    /\ orphanTimers = 0
    /\ rafPending = 0
    /\ isUpdatePending = FALSE
    /\ pixelDataChanged = FALSE
    /\ postsInFlight = 0
    /\ getsInFlight = 0
    /\ device = NoMatrix
    /\ wire = [NoWire EXCEPT !.log = TRUE, !.body = formattedColors(pixelData)]
    /\ nOps = 0
    /\ lastOp = NoOp
    /\ run = [tick |-> 0] @@ NoRun
    /\ PageIdle

NextNet ==
    \/ handleBatchUpdatePixels
    \/ emitUndo
    \/ emitClear
    \/ handleDrawComplete
    \/ timerFires
    \/ orphanTimerFires
    \/ animationFrame
    \/ postResponse

SpecNet == InitNet /\ [][NextNet]_vars

\* ============================================ continuing without device
\* The coalescer with the choice to go on without the device.
NextIgnore ==
    \/ NextNet
    \/ continueWithoutDevice

SpecIgnore == InitNet /\ [][NextIgnore]_vars

\* ===================================================== edits and undos
\* Edits of every kind from an empty history, then undos, by the toolbar
\* button or by the keyboard.  run.recs counts the edits made in a row from
\* the empty history, run.grids[j] is the grid before the j-th of them,
\* run.lens[j] the length of the history before it, and run.undos the undo
\* calls made since the last of them.  The callbacks of the coalescer
\* neither read nor write the history or the grid and are left out.
NoEdits == [recs |-> 0, undos |-> 0, grids |-> <<>>, lens |-> <<>>]
EditMade ==
    IF history = <<>>
    THEN [recs |-> 1, undos |-> 0, grids |-> <<pixelData>>, lens |-> <<0>>]
    ELSE IF run.recs > 0 /\ run.undos = 0
    THEN [recs |-> run.recs + 1, undos |-> 0,
          grids |-> Append(run.grids, pixelData),
          lens |-> Append(run.lens, Len(history))]
    ELSE NoEdits
UndoCalled(calls) ==
    IF run.recs > 0 THEN [run EXCEPT !.undos = @ + calls] ELSE run

InitUndo ==
    /\ gridWidth \in 1..MaxWidth
    /\ gridHeight \in 1..MaxHeight
    /\ pixelData = Fill(gridWidth * gridHeight, Black)
    /\ history = <<>>
    /\ lsPixelData = <<>>
    /\ lsDrawHistory = <<>>
    /\ loading = FALSE
    /\ error = FALSE
    /\ ignoreApi = FALSE
    /\ debounceTimer = "null"
    /\ orphanTimers = 0
    /\ rafPending = 0
    /\ isUpdatePending = FALSE
    /\ pixelDataChanged = FALSE
    /\ postsInFlight = 0
    /\ getsInFlight = 0
    /\ device = NoMatrix
    /\ wire = NoWire
    /\ nOps = 0
    /\ lastOp = NoOp
    /\ run = NoEdits
    /\ PageIdle

drawOne ==
    \E index \in Cells, color \in DrawColors :
        /\ Get(pixelData, index) # color
        /\ Tick
        /\ Do(updatePixel(Cur, index, color))
        /\ run' = EditMade
        /\ lastOp' = Op("updatePixel", "", index, TRUE, NoSnap)
        /\ UNCHANGED device

drawBatch ==
    \E center \in Cells, color \in DrawColors :
        /\ indicesToChange(Cur, center, color) # <<>>
        /\ Tick
        /\ Do(batchUpdatePixels(Cur, indicesToChange(Cur, center, color), color))
        /\ run' = EditMade
        /\ lastOp' = Op("batchUpdatePixels", "", center, TRUE, NoSnap)
        /\ UNCHANGED device

clearAll ==
    /\ Tick
    /\ Do(clearScreen(Cur))
    /\ run' = EditMade
    /\ lastOp' = Op("clearScreen", "", 0, TRUE, NoSnap)
    /\ UNCHANGED device

applyArray ==
    \E img \in {0, 1} :
        /\ Tick
        /\ Do(applyPixelArray(Cur, imagePixels(gridWidth, gridHeight, img)))
        /\ run' = EditMade
        /\ lastOp' = Op("applyPixelArray", "", 0, TRUE, NoSnap)
        /\ UNCHANGED device

\* the undo button of the toolbar: emit("undo"), bound to undo
clickUndo ==
    /\ history # <<>>
    /\ Do(undo(Cur))
    /\ run' = UndoCalled(1)
    /\ lastOp' = [Op("undo", "", 0, TRUE, NoSnap) EXCEPT !.at = nOps]
    /\ UNCHANGED <<device, nOps>>

\* one keydown of Ctrl+Z or Cmd+Z outside a text input: the event reaches
\* the listener setupKeyboardShortcuts put on document, which calls undo,
\* and then the listener the toolbar put on window, which emits "undo",
\* bound to undo as well (preventDefault does not stop the propagation)
pressCtrlZ ==
    /\ history # <<>>
    /\ Do(undo(undo(Cur)))
    /\ run' = UndoCalled(1 + 1)
    /\ lastOp' = [Op("ctrlZ", "", 0, TRUE, Snap(Cur)) EXCEPT !.at = nOps]
    /\ UNCHANGED <<device, nOps>>

NextUndo ==
    \/ drawOne
    \/ drawBatch
    \/ clearAll
    \/ applyArray
    \/ clickUndo
    \/ pressCtrlZ

SpecUndo == InitUndo /\ [][NextUndo]_vars

\* ================================================ the stored history log
\* The page of a returning user whose localStorage.drawHistory holds any
\* text at all.  loaded: setupGrid has run; threw: a handler ended in a
\* TypeError.
StoredLogs ==
    {<<>>, <<<<>>>>, <<<<DrawAction(0, Black)>>>>,
     <<<<[type |-> "", index |-> 0, color |-> Undefined, pixels |-> <<>>]>>>>,
     <<<<>>, Unparseable>>}
        \cup {<<<<>>, kind>> : kind \in NotLists}

InitLoad ==
    /\ gridWidth \in 1..MaxWidth
    /\ gridHeight \in 1..MaxHeight
    /\ lsPixelData \in {<<>>, arrayToString(savedDrawing(gridWidth * gridHeight))}
    /\ pixelData = <<>>
    /\ history = <<>>
    /\ lsDrawHistory \in StoredLogs
    /\ loading = FALSE
    /\ error = FALSE
    /\ ignoreApi = FALSE
    /\ debounceTimer = "null"
    /\ orphanTimers = 0
    /\ rafPending = 0
    /\ isUpdatePending = FALSE
    /\ pixelDataChanged = FALSE
    /\ postsInFlight = 0
    /\ getsInFlight = 0
    /\ device = NoMatrix
    /\ wire = NoWire
    /\ nOps = 0
    /\ lastOp = NoOp
    /\ run = [loaded |-> FALSE, threw |-> FALSE]
    /\ PageIdle

\* the watcher of the dimensions runs setupGrid
dimensionsWatcher ==
    /\ ~run.loaded
    /\ InstallState(setupGrid(Cur))
    /\ historyType' = typeLoaded(Cur, historyType)
    /\ run' = [run EXCEPT !.loaded = TRUE]
    /\ lastOp' = [Op("setupGrid", "", 0, TRUE, NoSnap) EXCEPT !.at = nOps]
    /\ UNCHANGED <<genVars, colorCache, lsColorStops, stopsChanged, imgVars,
                   device, nOps>>

\* updatePixel on the loaded page: history.value.push, the first statement
\* of saveToHistory, throws a TypeError when history.value is no array, and
\* nothing after it runs
updatePixelLoaded ==
    \E index \in Cells, color \in DrawColors :
        /\ run.loaded
        /\ Get(pixelData, index) # color
        /\ Tick
        /\ IF historyType = "array"
           THEN /\ Do(updatePixel(Cur, index, color))
                /\ run' = [run EXCEPT !.threw = FALSE]
           ELSE /\ UNCHANGED <<progVars, genVars, pageVars, wire>>
                /\ run' = [run EXCEPT !.threw = TRUE]
        /\ lastOp' = Op("updatePixel", "", index, TRUE, NoSnap)
        /\ UNCHANGED device

\* undo on the loaded page: history.value.length throws on null, and
\* history.value.pop is no function on a number or a plain object
undoLoaded ==
    /\ run.loaded
    /\ Tick
    /\ IF historyType = "array"
       THEN /\ Do(undo(Cur))
            /\ run' = [run EXCEPT !.threw = FALSE]
       ELSE /\ UNCHANGED <<progVars, genVars, pageVars, wire>>
            /\ run' = [run EXCEPT !.threw = TRUE]
    /\ lastOp' = Op("undo", "", 0, TRUE, NoSnap)
    /\ UNCHANGED device

NextLoad ==
    \/ dimensionsWatcher
    \/ updatePixelLoaded
    \/ undoLoaded

SpecLoad == InitLoad /\ [][NextLoad]_vars

\* ============================================ the stops and their cache
cacheThreshold == 5000
cacheEvicted == 2500

\* the key of a cell in the linear mode at 100% scale, the other parts of
\* the key being constant: mappedX is NaN on a grid one cell wide, mappedY
\* on a grid one cell high
cacheKey(x, y, width, height, angle) ==
    <<IF width = 1 THEN NaN ELSE x, IF height = 1 THEN NaN ELSE y, angle>>

cacheHas(cache, key) == \E i \in 1..Len(cache) : cache[i].key = key
cacheGet(cache, key) ==
    IF cacheHas(cache, key)
    THEN cache[CHOOSE i \in 1..Len(cache) : cache[i].key = key].color
    ELSE Undefined

\* variant: the eviction drops the newest keys
getColorFromCacheDropsNewest(cache, key, computed) ==
    IF cacheHas(cache, key)
    THEN [cache |-> cache, color |-> cacheGet(cache, key)]
    ELSE LET added == Append(cache, [key |-> key, color |-> computed])
             kept == IF Len(added) > cacheThreshold
                     THEN SubSeq(added, 1, Len(added) - cacheEvicted)
                     ELSE added
         IN  [cache |-> kept, color |-> cacheGet(kept, key)]

\* getColorFromCache(key, calcFunc), computed being what calcFunc returns:
\* the cache afterwards and the colour returned
getColorFromCache(cache, key, computed) ==
    IF cacheHas(cache, key)
    THEN [cache |-> cache, color |-> cacheGet(cache, key)]
    ELSE LET added == Append(cache, [key |-> key, color |-> computed])
             kept == IF Len(added) > cacheThreshold
                     THEN SubSeq(added, cacheEvicted + 1, Len(added))
                     ELSE added
         IN  [cache |-> kept, color |-> cacheGet(kept, key)]

\* calculateOptimizedPixels through the cache, row by row: the cache
\* afterwards and the pixels
RECURSIVE calculateWithCache(_, _, _, _, _, _)
calculateWithCache(cache, pixels, stops, angle, width, height) ==
    IF Len(pixels) = width * height THEN [cache |-> cache, pixels |-> pixels]
    ELSE LET x == Len(pixels) % width
             y == Len(pixels) \div width
             r == getColorFromCache(cache, cacheKey(x, y, width, height, angle),
                      getColorAtPosition(stops,
                          linearPosition(x, y, width, height, angle)))
         IN  calculateWithCache(r.cache, Append(pixels, r.color), stops, angle,
                                width, height)

\* the gap loop of addColorStop: the index of the first largest gap of the
\* sorted stops, 0 when no gap is positive
largestGap(sorted) ==
    LET gap(i) == sorted[i + 1].position - sorted[i].position
        gaps == 1..(Len(sorted) - 1)
    IN  IF \A i \in gaps : gap(i) <= 0 THEN 0
        ELSE CHOOSE i \in gaps :
                 /\ \A j \in gaps : gap(j) <= gap(i)
                 /\ \A j \in gaps : j < i => gap(j) < gap(i)

\* sorted.find(test)?.color || fallback
firstColor(sorted, hits, fallback) ==
    IF hits = {} THEN fallback
    ELSE sorted[CHOOSE i \in hits : \A j \in hits : i <= j].color

pushedStop(stops) ==
    LET sorted == SortStops(stops)
        i == largestGap(sorted)
        gapPos == IF i = 0 THEN 50
                  ELSE sorted[i].position
                       + (sorted[i + 1].position - sorted[i].position) \div 2
        below == {k \in 1..Len(sorted) : sorted[k].position < gapPos}
        above == {k \in 1..Len(sorted) : sorted[k].position > gapPos}
    IN  [color |-> interpolateColor(
                     firstColor(sorted, below, Black),
                     firstColor(sorted, above, White), Pos(1, 2)),
         position |-> gapPos]

\* variant: the stop is pushed however many there are
addedStopsUnguarded(stops) ==
    Append(stops, pushedStop(stops))

\* colorStops.value after addColorStop
addedStops(stops) ==
    IF Len(stops) >= MaxStops THEN stops
    ELSE Append(stops, pushedStop(stops))

\* colorStops.value after removeColorStop(index)
removedStops(stops, index) ==
    IF Len(stops) <= MinStops THEN stops
    ELSE SubSeq(stops, 1, index) \o SubSeq(stops, index + 2, Len(stops))

\* what loadFromLocalStorage leaves in colorStops.value
loadedStops(stops, stored) ==
    IF stored = <<>> THEN stops
    ELSE IF Len(stored[1]) >= MinStops THEN stored[1]
    ELSE stops

\* The stop positions are multiples of 16, so that the middles addColorStop
\* takes within the operations of a run are whole percents.
StopPositions == {0, 48, 96}
StopColors == {PureRed, PureBlue}
SavedStops ==
    { << [color |-> PureRed, position |-> 0],
         [color |-> PureBlue, position |-> 96] >>,
      << [color |-> PureBlue, position |-> 96],
         [color |-> PureRed, position |-> 0],
         [color |-> defaultStop1, position |-> 48] >>,
      << [color |-> PureRed, position |-> 0],
         [color |-> defaultStop1, position |-> 16],
         [color |-> defaultStop2, position |-> 48],
         [color |-> PureBlue, position |-> 96] >> }

\* The generator of a returning user as it is constructed, before onMounted:
\* the stops saved by an earlier visit are in localStorage.
InitStops ==
    /\ gridWidth \in 1..MaxWidth
    /\ gridHeight \in 1..MaxHeight
    /\ pixelData = Fill(gridWidth * gridHeight, Black)
    /\ history = <<>>
    /\ lsPixelData = <<>>
    /\ lsDrawHistory = <<>>
    /\ loading = FALSE
    /\ error = FALSE
    /\ ignoreApi = FALSE
    /\ debounceTimer = "null"
    /\ orphanTimers = 0
    /\ rafPending = 0
    /\ isUpdatePending = FALSE
    /\ pixelDataChanged = FALSE
    /\ postsInFlight = 0
    /\ getsInFlight = 0
    /\ device = NoMatrix
    /\ wire = NoWire
    /\ nOps = 0
    /\ lastOp = NoOp
    /\ run = [mounted |-> FALSE]
    /\ colorStops = defaultColorStops
    /\ customAngle \in RampAngles
    /\ sample = NoSample
    /\ historyType = "array"
    /\ colorCache = <<>>
    /\ lsColorStops \in {<<stops>> : stops \in SavedStops}
    /\ stopsChanged = FALSE
    /\ ImgIdle

\* applyGradient with the stops at hand: the pixels come through the cache
\* (emptied first when cleared is set) and go to applyPixelArray
Applied(s, cache, stops) ==
    LET r == calculateWithCache(cache, <<>>, stops, customAngle,
                                gridWidth, gridHeight)
    IN  [state |-> applyPixelArray(s, r.pixels), cache |-> r.cache,
         pixels |-> r.pixels]

StopsHandler(op, index, stops, cache, effective) ==
    LET a == Applied(Cur, cache, stops)
    IN  /\ Tick
        /\ Bounded(a.state)
        /\ InstallState(a.state)
        /\ colorStops' = stops
        /\ lsColorStops' = <<stops>>
        /\ colorCache' = a.cache
        /\ stopsChanged' = (stopsChanged \/ stops # colorStops)
        /\ sample' = [kind |-> "applied", position |-> 0, color |-> <<>>,
                      pixels |-> a.pixels]
        /\ lastOp' = Op(op, "", index, effective, NoSnap)
        /\ UNCHANGED <<customAngle, historyType, imgVars, device, run>>

\* a call that returns at its first line
StopsRefused(op, index) ==
    /\ Tick
    /\ lastOp' = Op(op, "", index, FALSE, NoSnap)
    /\ UNCHANGED <<progVars, genVars, pageVars, device, wire, run>>

\* onMounted: loadFromLocalStorage; assigning colorStops.value queues the
\* watchers
mountGenerator ==
    /\ ~run.mounted
    /\ colorStops' = loadedStops(colorStops, lsColorStops)
    /\ stopsChanged' = (colorStops' # colorStops)
    /\ run' = [mounted |-> TRUE]
    /\ lastOp' = [Op("loadFromLocalStorage", "", 0, TRUE, NoSnap)
                     EXCEPT !.at = nOps]
    /\ UNCHANGED <<progVars, customAngle, sample, historyType, imgVars, colorCache,
                   lsColorStops, device, wire, nOps>>

\* the two watchers of colorStops, one after the other: each clears the
\* cache and applies the gradient
colorStopsWatchers ==
    LET a1 == Applied(Cur, <<>>, colorStops)
        a2 == Applied(a1.state, <<>>, colorStops)
    IN  /\ stopsChanged
        /\ Bounded(a2.state)
        /\ InstallState(a2.state)
        /\ colorCache' = a2.cache
        /\ stopsChanged' = FALSE
        /\ sample' = [kind |-> "applied", position |-> 0, color |-> <<>>,
                      pixels |-> a2.pixels]
        /\ lastOp' = [Op("watch(colorStops)", "", 0, TRUE, NoSnap)
                         EXCEPT !.at = nOps]
        /\ UNCHANGED <<colorStops, customAngle, historyType, imgVars, lsColorStops,
                       device, nOps, run>>

\* a user event is handled once the watchers queued by the one before it
\* have run
Settled == run.mounted /\ ~stopsChanged

addColorStop ==
    /\ Settled
    /\ IF addedStops(colorStops) = colorStops
       THEN StopsRefused("addColorStop", 0)
       ELSE StopsHandler("addColorStop", 0, addedStops(colorStops),
                         colorCache, TRUE)

removeColorStop ==
    \E index \in 0..(Len(colorStops) - 1) :
        /\ Settled
        /\ IF removedStops(colorStops, index) = colorStops
           THEN StopsRefused("removeColorStop", index)
           ELSE StopsHandler("removeColorStop", index,
                             removedStops(colorStops, index), colorCache, TRUE)

updateStopColor ==
    \E index \in 0..(Len(colorStops) - 1), color \in StopColors :
        /\ Settled
        /\ StopsHandler("updateStopColor", index,
               [colorStops EXCEPT ![index + 1].color = color], <<>>, TRUE)

updateStopPosition ==
    \E index \in 0..(Len(colorStops) - 1), position \in StopPositions :
        /\ Settled
        /\ StopsHandler("updateStopPosition", index,
               [colorStops EXCEPT ![index + 1].position =
                    clampPosition(Pos(position, 1)).n],
               <<>>, TRUE)

NextStops ==
    \/ mountGenerator
    \/ colorStopsWatchers
    \/ addColorStop
    \/ removeColorStop
    \/ updateStopColor
    \/ updateStopPosition

SpecStops == InitStops /\ [][NextStops]_vars

\* ================================================ the cache filling up
\* The cache after many gradients: its keys are numbered in the order of
\* their insertion, key n standing for the n-th distinct key string, and the
\* colour computed for a key is a colour of the default ramp.
MaxFill == 40
computedFor(key) == getColorAtPosition(defaultColorStops, Pos(key % 101, 1))
filledCache(n) == [i \in 1..n |-> [key |-> i, color |-> computedFor(i)]]

\* next: the number of the next new key; miss: the last call computed its
\* colour; before: the size of the cache when the last call began
InitCache ==
    /\ gridWidth = MaxWidth
    /\ gridHeight = MaxHeight
    /\ pixelData = Fill(gridWidth * gridHeight, Black)
    /\ history = <<>>
    /\ lsPixelData = <<>>
    /\ lsDrawHistory = <<>>
    /\ loading = FALSE
    /\ error = FALSE
    /\ ignoreApi = FALSE
    /\ debounceTimer = "null"
    /\ orphanTimers = 0
    /\ rafPending = 0
    /\ isUpdatePending = FALSE
    /\ pixelDataChanged = FALSE
    /\ postsInFlight = 0
    /\ getsInFlight = 0
    /\ device = NoMatrix
    /\ wire = NoWire
    /\ nOps = 0
    /\ lastOp = NoOp
    /\ GenIdle
    /\ historyType = "array"
    /\ lsColorStops = <<>>
    /\ stopsChanged = FALSE
    /\ ImgIdle
    /\ \E n \in (cacheThreshold - MaxFill)..cacheThreshold :
           /\ colorCache = filledCache(n)
           /\ run = [next |-> n + 1, miss |-> FALSE, before |-> n]

CacheCall(key, miss) ==
    LET r == getColorFromCache(colorCache, key, computedFor(key))
    IN  /\ colorCache' = r.cache
        /\ sample' = [kind |-> "cache", position |-> key, color |-> r.color,
                      pixels |-> <<>>]
        /\ run' = [next |-> IF miss THEN run.next + 1 ELSE run.next,
                   miss |-> miss, before |-> Len(colorCache)]
        /\ lastOp' = [Op("getColorFromCache", "", key, miss, NoSnap)
                         EXCEPT !.at = nOps]
        /\ UNCHANGED <<progVars, colorStops, customAngle, historyType, imgVars,
                       lsColorStops, stopsChanged, device, wire, nOps>>

\* getColorFromCache for a key the cache does not hold
cacheMiss ==
    /\ run.next <= cacheThreshold + MaxFill
    /\ CacheCall(run.next, TRUE)

\* getColorFromCache for the oldest or the newest key the cache holds
cacheHit ==
    \E i \in {1, Len(colorCache)} :
        CacheCall(colorCache[i].key, FALSE)

NextCache ==
    \/ cacheMiss
    \/ cacheHit

SpecCache == InitCache /\ [][NextCache]_vars

\* ================================================== the image uploader
MaxRuns == 2
Brightnesses == {0, defaultBrightness, 150}
Contrasts == {defaultContrast, 50}

\* storing the number p / q (q > 0) in a Uint8ClampedArray: clamped to
\* 0..255 and rounded to the nearest integer, halves to the even one
toUint8Clamped(p, q) ==
    IF p <= 0 THEN 0
    ELSE IF p >= 255 * q THEN 255
    ELSE LET floor == p \div q
             rest == p % q
         IN  IF 2 * rest < q THEN floor
             ELSE IF 2 * rest > q THEN floor + 1
             ELSE IF floor % 2 = 0 THEN floor ELSE floor + 1

\* the canvas after drawImage, one <<r, g, b>> per cell: the two images of
\* imagePixels
imageChannels(width, height, img) ==
    [k \in 1..(width * height) |->
        IF img = 0 THEN <<255, 37, 0>>
        ELSE IF k = 1 THEN <<0, 0, 10>>
        ELSE <<171, 205, 239>>]

\* factor of processImage as the fraction n / d, for contrast.value = c
contrastFactor(c) ==
    [n |-> 259 * (255 * c + 25500), d |-> 255 * (25900 - 255 * c)]

\* one channel through the loop of processImage: the brightness is stored,
\* then the contrast
adjustChannel(v, b, c) ==
    LET bright == toUint8Clamped(v * b, 100)
        f == contrastFactor(c)
    IN  toUint8Clamped(f.n * (bright - 128) + 128 * f.d, f.d)

\* pixelColors of processImage for the image img
adjustedPixels(img, b, c, width, height) ==
    LET data == imageChannels(width, height, img)
    IN  [k \in 1..(width * height) |->
            rgbToHex(adjustChannel(data[k][1], b, c),
                     adjustChannel(data[k][2], b, c),
                     adjustChannel(data[k][3], b, c))]

\* variant: a run works with the settings it was started under
settingsAtStart(r, b, c) ==
    [brightness |-> r.brightness, contrast |-> r.contrast]

\* the settings a run works with: brightness.value and contrast.value are
\* read after the await, when the run goes on
settingsRead(r, b, c) ==
    [brightness |-> b, contrast |-> c]

\* processImage up to its await; what is noted of the settings is history
startedRun(img, b, c) ==
    [src |-> img, brightness |-> b, contrast |-> c]

\* stale: a run went on under settings changed since it started;
\* overtaken: a run went on before one started earlier
InitImage ==
    /\ gridWidth \in 1..MaxWidth
    /\ gridHeight \in 1..MaxHeight
    /\ pixelData = Fill(gridWidth * gridHeight, Black)
    /\ history = <<>>
    /\ lsPixelData = <<>>
    /\ lsDrawHistory = <<>>
    /\ loading = FALSE
    /\ error = FALSE
    /\ ignoreApi = FALSE
    /\ debounceTimer = "null"
    /\ orphanTimers = 0
    /\ rafPending = 0
    /\ isUpdatePending = FALSE
    /\ pixelDataChanged = FALSE
    /\ postsInFlight = 0
    /\ getsInFlight = 0
    /\ device = NoMatrix
    /\ wire = NoWire
    /\ nOps = 0
    /\ lastOp = NoOp
    /\ run = [stale |-> FALSE, overtaken |-> FALSE]
    /\ PageIdle

ImageRest ==
    UNCHANGED <<progVars, genVars, historyType, colorCache, lsColorStops,
                stopsChanged, device, wire, nOps>>

\* a file is chosen and read: reader.onload sets imagePreview and calls
\* processImage
handleFileChange ==
    \E img \in {0, 1} :
        /\ imagePreview = <<>>
        /\ imagePreview' = <<img>>
        /\ imageRuns' = Append(imageRuns, startedRun(img, brightness, contrast))
        /\ lastOp' = [Op("handleFileChange", "", img, TRUE, NoSnap)
                         EXCEPT !.at = nOps]
        /\ UNCHANGED <<brightness, contrast, convertedPixelData, run>>
        /\ ImageRest

\* the brightness slider moves: the watcher calls processImage
moveBrightness ==
    \E b \in Brightnesses :
        /\ imagePreview # <<>>
        /\ b # brightness
        /\ Len(imageRuns) < MaxRuns
        /\ brightness' = b
        /\ imageRuns' = Append(imageRuns,
                               startedRun(imagePreview[1], b, contrast))
        /\ lastOp' = [Op("brightness", "", b, TRUE, NoSnap) EXCEPT !.at = nOps]
        /\ UNCHANGED <<contrast, imagePreview, convertedPixelData, run>>
        /\ ImageRest

\* the contrast slider moves: the watcher calls processImage
moveContrast ==
    \E c \in Contrasts :
        /\ imagePreview # <<>>
        /\ c # contrast
        /\ Len(imageRuns) < MaxRuns
        /\ contrast' = c
        /\ imageRuns' = Append(imageRuns,
                               startedRun(imagePreview[1], brightness, c))
        /\ lastOp' = [Op("contrast", "", c, TRUE, NoSnap) EXCEPT !.at = nOps]
        /\ UNCHANGED <<brightness, imagePreview, convertedPixelData, run>>
        /\ ImageRest

\* img.onload of one of the runs, in any order: the run goes on to its end
imageLoaded ==
    \E i \in 1..Len(imageRuns) :
        LET r == imageRuns[i]
            s == settingsRead(r, brightness, contrast)
        IN  /\ convertedPixelData' =
                   adjustedPixels(r.src, s.brightness, s.contrast,
                                  gridWidth, gridHeight)
            /\ imageRuns' = SubSeq(imageRuns, 1, i - 1)
                               \o SubSeq(imageRuns, i + 1, Len(imageRuns))
            /\ run' = [stale |-> run.stale \/ r.brightness # brightness
                                    \/ r.contrast # contrast,
                       overtaken |-> run.overtaken \/ i > 1]
            /\ lastOp' = [Op("processImage", "", i, TRUE, NoSnap)
                             EXCEPT !.at = nOps]
            /\ UNCHANGED <<brightness, contrast, imagePreview>>
            /\ ImageRest

NextImage ==
    \/ handleFileChange
    \/ moveBrightness
    \/ moveContrast
    \/ imageLoaded

SpecImage == InitImage /\ [][NextImage]_vars

\* ================================================================= claims
\* C1: in every reachable state the pixel buffer holds exactly
\* gridWidth * gridHeight cells.
GridHasAllCells == Len(pixelData) = gridWidth * gridHeight

\* C2: updatePixel(i, c) on an in-range cell of another colour, followed
\* by undo() with no other edit in between, leaves every cell (the edited
\* one included) reading as before the edit, and the width and the height
\* unchanged.
UndoRevertsDraw ==
    (lastOp.op = "undo" /\ lastOp.undid = "updatePixel" /\ lastOp.effective)
    => /\ gridWidth = lastOp.pre.gridWidth
       /\ gridHeight = lastOp.pre.gridHeight
       /\ \A i \in 0..(Len(pixelData) + Len(lastOp.pre.pixelData)) :
            Get(pixelData, i) = Get(lastOp.pre.pixelData, i)

\* C2, witness: a cell of a grid of several cells was painted and the
\* paint undone.
DrawUndone ==
    /\ lastOp.op = "undo" /\ lastOp.undid = "updatePixel" /\ lastOp.effective
    /\ Len(pixelData) > 1
    /\ \E k \in 1..Len(pixelData) : pixelData[k] # Black

\* C3: clearScreen() followed by undo() with no other edit in between gives
\* back the grid as it was just before the clear, cell for cell.
UndoRevertsClear ==
    (lastOp.op = "undo" /\ lastOp.undid = "clearScreen" /\ lastOp.effective)
    => pixelData = lastOp.pre.pixelData

\* C3, witness: a grid with a painted cell was cleared and the clear undone.
ClearUndone ==
    /\ lastOp.op = "undo" /\ lastOp.undid = "clearScreen" /\ lastOp.effective
    /\ \E k \in 1..Len(lastOp.pre.pixelData) : lastOp.pre.pixelData[k] # Black

\* C4: the history never holds more than maxHistoryLength actions, and
\* each recording step appends the new action (the draw of a cell with the
\* colour it had, or the clear with the grid it had), after dropping the
\* oldest one when maxHistoryLength were stored.
HistoryCapped ==
    /\ [](Len(history) <= maxHistoryLength)
    /\ [][run'.tick # run.tick =>
            LET new == history'[Len(history')]
            IN  /\ Len(history') > 0
                /\ \/ new = ClearAction(pixelData)
                   \/ \E i \in Cells : new = DrawAction(i, Get(pixelData, i))
                /\ history' = IF Len(history) = maxHistoryLength
                              THEN Append(Tail(history), new)
                              ELSE Append(history, new)]_vars

\* C4, witness: the action after the maxHistoryLength-th has been recorded
\* and the history is full.
OldestEvicted ==
    /\ run.recs = maxHistoryLength + 1
    /\ run.undos = 0
    /\ Len(history) = maxHistoryLength

\* C5: after exactly maxHistoryLength + 1 actions recorded from an empty
\* history, the k-th undo in a row (k up to maxHistoryLength) leaves the
\* grid as it was before the k-th most recent action and the history with
\* maxHistoryLength - k actions; after maxHistoryLength of them the history
\* is empty, the grid is the one the first action left, and a further undo
\* changes neither.
FiftyUndosAfterFiftyOne ==
    (run.recs = maxHistoryLength + 1 /\ run.undos > 0)
    => IF run.undos <= maxHistoryLength
       THEN /\ Len(history) = maxHistoryLength - run.undos
            /\ pixelData = run.grids[maxHistoryLength + 1 + 1 - run.undos]
       ELSE /\ history = <<>>
            /\ pixelData = run.grids[1 + 1]

\* C5, witness: maxHistoryLength + 1 actions, then maxHistoryLength undos;
\* the grid differs from the one the run began with.
AllUndone ==
    /\ run.recs = maxHistoryLength + 1
    /\ run.undos = maxHistoryLength
    /\ history = <<>>
    /\ pixelData # run.grids[1]

\* C6: after a full-grid array of the gradient generator or of the image
\* sampler was applied, one undo() gives back the grid as it was before
\* the apply.
OneUndoRevertsApply ==
    (/\ lastOp.op = "undo"
     /\ lastOp.undid \in {"applyPixelArray", "applyGradient"}
     /\ lastOp.effective)
    => pixelData = lastOp.pre.pixelData

\* C7: an undo() on an empty history changes no variable of the program
\* (grid, history, stored copies, timer, flags, requests); an undo() on a
\* history that is not empty removes its last action and adds none.
UndoOnEmptyAndNoRedo ==
    [][(lastOp'.op = "undo" /\ nOps' = nOps + 1 /\ lastOp'.at = nOps')
        => IF history = <<>> THEN UNCHANGED progVars
           ELSE history' = SubSeq(history, 1, Len(history) - 1)]_vars

\* C7, witness: undo() was the first operation, on the empty history, and
\* nothing is armed or marked for sending.
UndoneOnEmpty ==
    /\ lastOp.op = "undo" /\ lastOp.undid = "init"
    /\ history = <<>>
    /\ debounceTimer = "null" /\ ~pixelDataChanged /\ postsInFlight = 0

\* C8: when a dimension changes, each cell of the rebuilt grid below the
\* old size keeps the colour the cell of that index had, and each cell at
\* or beyond the old size is #000000.
ResizeCarriesOver ==
    [][(gridWidth' # gridWidth \/ gridHeight' # gridHeight)
        => \A i \in 0..(gridWidth' * gridHeight' - 1) :
              Get(pixelData', i) = IF i < gridWidth * gridHeight
                                   THEN Get(pixelData, i) ELSE Black]_vars

\* C9: updatePixel and batchUpdatePixels called with an index outside
\* [0, width * height) leave the grid (contents and length) and the
\* history as they were.
OutOfRangeWriteIsNoOp ==
    (/\ lastOp.op \in {"updatePixel", "batchUpdatePixels"}
     /\ \/ lastOp.index < 0
        \/ lastOp.index >= lastOp.pre.gridWidth * lastOp.pre.gridHeight)
    => /\ pixelData = lastOp.pre.pixelData
       /\ history = lastOp.pre.history

\* C10: every colour stored in the grid is "#" followed by six lowercase
\* hex digits.
StoredColoursCanonical ==
    \A k \in 1..Len(pixelData) :
        /\ Len(pixelData[k]) = 7
        /\ pixelData[k][1] = "#"
        /\ \A j \in 2..7 : \E d \in 1..Len(LowerHex) : pixelData[k][j] = LowerHex[d]

\* C11: the serpentine encoder emits width * height colours, the cell at
\* column x of row y at position y * width + x when y is even and at
\* y * width + (width - 1 - x) when y is odd; encoding what it emitted, with
\* the same dimensions, gives the colours back in row-major order.
SerpentineIndexMap ==
    /\ wire.ev = "encode" =>
         /\ Len(wire.body) = gridWidth * gridHeight
         /\ \A y \in 0..(gridHeight - 1) : \A x \in 0..(gridWidth - 1) :
              wire.body[1 + (IF y % 2 = 0 THEN y * gridWidth + x
                             ELSE y * gridWidth + (gridWidth - 1 - x))]
                = formattedColors(pixelData)[1 + y * gridWidth + x]
    /\ wire.ev = "encodeAgain" => wire.body = formattedColors(pixelData)

\* C11, witness: a grid with an odd row whose cells differ has been encoded
\* and encoded again.
SerpentineTwice ==
    /\ wire.ev = "encodeAgain"
    /\ gridWidth >= 2 /\ gridHeight >= 2
    /\ pixelData[gridWidth + 1] # pixelData[gridWidth + 2]

\* C12: a debounce window in which debouncedSendToWled was called once or
\* more, with no flush and the device not ignored, has issued exactly one
\* POST by the time it closes.
OnePostPerWindow ==
    (wire.winState = "closed" /\ ~wire.flushed /\ ~ignoreApi)
    => wire.winPosts = 1

\* C13: with no request failed, once nothing is left to happen (no timer,
\* no deferred send, no request pending) the last POST issued carries the
\* grid as it is.
LastPostCarriesGrid ==
    (/\ ~wire.failed /\ ~ignoreApi
     /\ debounceTimer = "null" /\ orphanTimers = 0 /\ rafPending = 0
     /\ postsInFlight = 0)
    => wire.body = formattedColors(pixelData)

\* C14: right after flushChanges no timer and no deferred send of the
\* earlier window is left.
FlushCancelsAll ==
    wire.ev = "flush"
    => debounceTimer = "null" /\ orphanTimers = 0 /\ rafPending = 0

\* C15: the end of a POST in failure takes the request off the wire and
\* changes nothing else: no POST is issued, no timer or deferred send is
\* set up, and the pending-change flag keeps its value.
FailedPostLeavesAllAsIs ==
    [][(wire'.ended # wire.ended /\ wire'.outcome = "postFailed")
        => /\ postsInFlight' = postsInFlight - 1
           /\ wire'.body = wire.body
           /\ UNCHANGED <<gridWidth, gridHeight, pixelData, history,
                          lsPixelData, lsDrawHistory, loading, error,
                          ignoreApi, debounceTimer, orphanTimers, rafPending,
                          isUpdatePending, pixelDataChanged, getsInFlight>>]_vars

\* C15, witness: a POST has failed while a change was pending, and the
\* change is still pending with nothing on its way.
PostFailedChangePending ==
    /\ wire.outcome = "postFailed"
    /\ pixelDataChanged
    /\ postsInFlight = 0 /\ debounceTimer = "null" /\ rafPending = 0

\* C16: while the last request that ended has failed, the error flag is
\* true.
ErrorFlagAfterFailure ==
    wire.outcome \in {"getFailed", "postFailed"} => error

\* C17: when GETs were pending at once and all their responses have
\* arrived, the grid has the dimensions reported to the GET issued last.
LastIssuedGetWins ==
    (wire.overlap /\ wire.gets = <<>> /\ getsInFlight = 0)
    => gridWidth = wire.issued.w /\ gridHeight = wire.issued.h

\* C18: the ramp at position 0 is exactly the colour of a stop with the
\* smallest position, and at position 100 exactly the colour of a stop with
\* the largest position, whatever the order and number of the stops.
RampEndsAreStopColours ==
    LET positions == {colorStops[i].position : i \in 1..Len(colorStops)}
        least == CHOOSE p \in positions : \A q \in positions : p <= q
        most == CHOOSE p \in positions : \A q \in positions : p >= q
    IN  /\ (sample.kind = "color" /\ sample.position = 0)
            => \E i \in 1..Len(colorStops) :
                  /\ colorStops[i].position = least
                  /\ sample.color = colorStops[i].color
        /\ (sample.kind = "color" /\ sample.position = 100)
            => \E i \in 1..Len(colorStops) :
                  /\ colorStops[i].position = most
                  /\ sample.color = colorStops[i].color

\* C18, witness: three stops given out of order, the smallest one second
\* and written in upper case; the ramp at 0 is its colour as written.
RampStartOutOfOrder ==
    /\ sample.kind = "color" /\ sample.position = 0
    /\ colorStops = << [color |-> PureBlue, position |-> 100],
                       [color |-> defaultStop1, position |-> 0],
                       [color |-> PureRed, position |-> 50] >>
    /\ sample.color = defaultStop1

\* C19: for the stops red #ff0000 at 0 and blue #0000ff at 100 the ramp at
\* position 50 is #7f007f.
RedBlueMidpoint ==
    (/\ sample.kind = "color" /\ sample.position = 50
     /\ colorStops = << [color |-> PureRed, position |-> 0],
                        [color |-> PureBlue, position |-> 100] >>)
    => sample.color = <<"#", "7", "f", "0", "0", "7", "f">>

\* C20: for angle 0 and stops that span the ramp from 0 to 100, the cells
\* of the top row have the colour of the first stop and the cells of the
\* bottom row the colour of the last stop.
AngleZeroTopToBottom ==
    LET sorted == SortStops(colorStops)
    IN  (/\ sample.kind = "pixels" /\ customAngle = 0
         /\ gridWidth >= 2 /\ gridHeight >= 2
         /\ sorted[1].position = 0 /\ sorted[Len(sorted)].position = 100)
        => \A x \in 0..(gridWidth - 1) :
              /\ sample.pixels[1 + x] = sorted[1].color
              /\ sample.pixels[1 + (gridHeight - 1) * gridWidth + x]
                   = sorted[Len(sorted)].color

\* C25: at most one debounce timer is still to fire, and while the stored
\* handle is null none is.
OneTimerAndHandleTracksIt ==
    /\ orphanTimers + (IF debounceTimer = "armed" THEN 1 ELSE 0) <= 1
    /\ debounceTimer = "null" => orphanTimers = 0

\* C28: once the device is ignored no POST is issued any more and the
\* ignore flag stays set.
NoPostOnceIgnored ==
    [][ignoreApi => (ignoreApi' /\ postsInFlight' <= postsInFlight
                     /\ wire'.body = wire.body)]_vars

\* C28, witness: the deferred send of a debounce timer that was running
\* when the device was ignored has run, a change pending, and has issued
\* nothing.
FrameAfterIgnore ==
    /\ ignoreApi
    /\ wire.ev = "frame"
    /\ wire.winState = "closed" /\ wire.winPosts = 0
    /\ pixelDataChanged

\* C24: after one press of Ctrl+Z with a non-empty history, the history is
\* one entry shorter than before the press.
CtrlZUndoesOne ==
    (lastOp.op = "ctrlZ" /\ lastOp.pre.history # <<>>)
    => Len(history) = Len(lastOp.pre.history) - 1

\* C26 as stated: after n edits from an empty history and then n undo
\* calls, the history is empty and the grid is the one before the first
\* edit.
UndoIsLifoPerEdit ==
    (run.recs > 0 /\ run.undos = run.recs)
    => history = <<>> /\ pixelData = run.grids[1]

\* C26, amended: counting the recorded actions (one per changed cell of a
\* draw or batch draw, one per clear or full-array apply), the undo calls
\* revert them last in, first out: whenever the undos have brought the
\* history back to the length it had before the j-th edit, the grid is the
\* one before that edit; with the history empty it is the grid before the
\* first edit.
UndoIsLifoPerAction ==
    (run.recs > 0 /\ run.undos > 0)
    => \A j \in 1..run.recs :
          Len(history) = run.lens[j] => pixelData = run.grids[j]

\* C26, witness: two edits that recorded three actions or more, all of them
\* undone; the grid is the one before the first edit.
AllActionsUndone ==
    /\ run.recs = 2 /\ run.undos >= 3
    /\ run.lens[2] >= 2
    /\ run.grids[2] # run.grids[1]
    /\ history = <<>>
    /\ pixelData = run.grids[1]

\* C30: on every grid, one cell wide or high included, the generator
\* returns width * height colours, each of the form #rrggbb.
GradientIsWellFormed ==
    sample.kind = "pixels"
    => /\ Len(sample.pixels) = gridWidth * gridHeight
       /\ \A k \in 1..Len(sample.pixels) :
             LET c == sample.pixels[k]
             IN  /\ Len(c) = 7
                 /\ c[1] = "#"
                 /\ \A d \in 2..7 : HexVal(c[d]) # NaN

\* C29: once a persisted history log has been loaded, whatever its text,
\* the history in memory is a list, and no record or undo made afterwards
\* ends in an exception.
MalformedLogIsIgnored ==
    run.loaded => (historyType = "array" /\ ~run.threw)

\* C21: through addColorStop, removeColorStop, updateStopColor,
\* updateStopPosition and the load of the saved settings the gradient keeps
\* between 2 and 4 stops; addColorStop with 4 stops and removeColorStop
\* with 2 leave the list as it is.
StopsStayTwoToFour ==
    [][/\ Len(colorStops') >= MinStops
       /\ Len(colorStops') <= MaxStops
       /\ (nOps' # nOps /\ lastOp'.op = "addColorStop"
             /\ Len(colorStops) = MaxStops) => colorStops' = colorStops
       /\ (nOps' # nOps /\ lastOp'.op = "removeColorStop"
             /\ Len(colorStops) = MinStops) => colorStops' = colorStops]_vars

\* C21 witness: addColorStop was called with 4 stops, which are all there
AddRefusedAtFour ==
    /\ lastOp.op = "addColorStop"
    /\ ~lastOp.effective
    /\ Len(colorStops) = MaxStops

\* C22: every grid the generator applies is the grid a computation without
\* the cache gives for the stops and the angle it has at that moment.
AppliedGridIsFresh ==
    sample.kind = "applied"
        => sample.pixels = gradientPixels(colorStops, customAngle,
                                          gridWidth, gridHeight)

\* C27: the cache holds at most 5000 entries whenever getColorFromCache has
\* returned; the insertion that makes them 5001 drops the 2500 keys
\* inserted first and nothing else; a key just inserted is in the cache,
\* and the call returns the colour it has just computed for it.
CacheEvictsOldestHalf ==
    [][/\ Len(colorCache') <= cacheThreshold
       /\ run'.miss =>
            /\ cacheHas(colorCache', sample'.position)
            /\ sample'.color = computedFor(sample'.position)
            /\ sample'.color = cacheGet(colorCache', sample'.position)
       /\ (run'.miss /\ Len(colorCache) = cacheThreshold) =>
            colorCache' =
                SubSeq(colorCache, cacheEvicted + 1, cacheThreshold)
                    \o <<[key |-> sample'.position, color |-> sample'.color]>>
      ]_vars

\* C27 witness: the call that found 5000 entries has inserted its key, and
\* 2501 entries are left
CacheJustEvicted ==
    /\ run.miss
    /\ run.before = cacheThreshold
    /\ Len(colorCache) = cacheThreshold + 1 - cacheEvicted
    /\ colorCache[Len(colorCache)].key = sample.position

\* C23: once every processImage run started by the brightness and contrast
\* changes has ended, in whatever order, convertedPixelData is the image
\* adjusted by the brightness and the contrast now set, and by nothing else.
LatestSettingsWin ==
    (imagePreview # <<>> /\ imageRuns = <<>>)
        => convertedPixelData =
               adjustedPixels(imagePreview[1], brightness, contrast,
                              gridWidth, gridHeight)

\* C23 witness: runs have overlapped, one went on under newer settings and
\* one before an older one, all have ended, and the settings are not the
\* default ones
OverlappedRunsEnded ==
    /\ imagePreview # <<>>
    /\ imageRuns = <<>>
    /\ run.stale
    /\ run.overtaken
    /\ brightness # defaultBrightness
    /\ contrast # defaultContrast
    /\ convertedPixelData # adjustedPixels(imagePreview[1], defaultBrightness,
                                           defaultContrast, gridWidth, gridHeight)

====
